---- MODULE Spec2Model ----
(***************************************************************************)
(* Model of package certreloader (src/reloader.go): a Reloader caches a    *)
(* tls.Certificate and re-reads certFile / keyFile from disk when          *)
(* reloadInterval has elapsed since lastCertReload.  Two goroutines call   *)
(* GetCertificateFunc and WithReloadInterval on one Reloader while the     *)
(* clock advances and the renewal process rewrites the two files.          *)
(*                                                                         *)
(* Time is counted in ticks of 24 hours, so that time.Hour * 24 is 1.      *)
(* A file's content is a version number 1..MaxVer, or Bad (missing or      *)
(* unparsable).  A parsed tls.Certificate is the record of the version of  *)
(* its certificate chain and the version of its private key.               *)
(***************************************************************************)
EXTENDS Integers, FiniteSets

\* ------------------------------------------------------------- bounds
MaxTime == 2
MaxVer == 2
MaxCalls == 4
MaxFairCalls == 2

\* ---------------------------------------------------------- constants
defaultReloadInterval == 1

Threads == {"g1", "g2"}
NoThread == "none"
Mixed == "mixed"
Bad == 0
Durations == {-1, 0, 1}
NilCert == [Certificate |-> 0, PrivateKey |-> 0]
NoGhost == [reads |-> 0, observed |-> FALSE, before |-> NilCert]
NoWin == [first |-> NilCert, swapped |-> FALSE]

VARIABLES
    now,             \* time.Now()
    certFile,        \* content of the file at path r.certFile
    keyFile,         \* content of the file at path r.keyFile
    r,               \* result of NewReloader: "unborn", "nil" (error) or "live"
    newErr,          \* error result of NewReloader
    cert,            \* r.cert
    lastCertReload,  \* r.lastCertReload
    reloadInterval,  \* r.reloadInterval
    verbose,         \* r.verbose
    writer,          \* r.m: the goroutine inside Lock()..Unlock(), or NoThread
    readers,         \* r.m: the goroutines holding the read lock
    rwaiting,        \* r.m: the goroutines sleeping in RLock() behind a writer
    pc,              \* position of each goroutine
    loaded,          \* reload's local cert, per goroutine
    err,             \* GetCertificateFunc's local err, per goroutine
    ret,             \* certificate GetCertificateFunc is returning
    retErr,          \* error it is returning: "none" (not yet set), "nil" or "err"
    calls,           \* number of calls started so far
    pairBy,          \* history: NoThread when r.cert and r.lastCertReload were
                     \* written by the same reload, the goroutine that wrote
                     \* r.cert and not yet r.lastCertReload, or Mixed
    quiet,           \* history, per goroutine: what other goroutines wrote to
                     \* the Reloader since its call began or since its own
                     \* swap: "swap" (r.cert), "config" (r.reloadInterval)
    since,           \* history, per goroutine: "stale" when its call began
                     \* past lastCertReload + reloadInterval; "window" when it
                     \* began within the interval and since then the interval
                     \* has not elapsed and the files have not changed;
                     \* "broken" otherwise; "none" outside a call
    win,             \* history of the current such window: the bundle its
                     \* first call returned, and whether a swap followed
    ghost            \* history of the current call, per goroutine: file reads,
                     \* staleness observed, r.cert before a failed reload

vars == <<now, certFile, keyFile, r, newErr, cert, lastCertReload, reloadInterval,
          verbose, writer, readers, rwaiting, pc, loaded, err, ret, retErr, calls,
          pairBy, quiet, since, win, ghost>>

diskVars == <<certFile, keyFile>>
fieldVars == <<cert, lastCertReload, reloadInterval>>
lockVars == <<writer, readers, rwaiting>>
localVars == <<loaded, err, ret, retErr>>
winVars == <<since, win>>

\* ------------------------------------------------- tls.LoadX509KeyPair
\* Reads both files and parses them; fails when a file is missing or
\* unparsable, or when the private key does not match the certificate.
LoadX509KeyPair(c, k) ==
    IF c /= Bad /\ k /= Bad /\ c = k
    THEN [cert |-> [Certificate |-> c, PrivateKey |-> k], err |-> "nil"]
    ELSE [cert |-> NilCert, err |-> "err"]

\* time.Time.After
After_OrEqual(t, u) == t >= u

After(t, u) == t > u

\* shouldReload's result:
\* time.Now().After(r.lastCertReload.Add(r.reloadInterval))
Stale_Never == FALSE

Stale_Always == TRUE

Stale_DefaultInterval == After(now, lastCertReload + defaultReloadInterval)

Stale_Backoff ==
    /\ After(now, lastCertReload + reloadInterval)
    /\ \A u \in Threads : err[u] /= "err"

Stale_PositiveOnly ==
    reloadInterval > 0 /\ After(now, lastCertReload + reloadInterval)

Stale == After(now, lastCertReload + reloadInterval)

\* the nil error of NewReloader's result
NilErr == <<>>

\* fmt.Errorf with %w: a new error that wraps the underlying one
Errorf(msg, e) == <<msg, e>>

\* NewReloader's test of the error of tls.LoadX509KeyPair
ConstructFails_Ignored(res) == FALSE

ConstructFails(res) == res.err /= "nil"

\* NewReloader's cert: &cert
NewCert_Nil(res) == NilCert

NewCert(res) == res.cert

\* reload's test of the error of tls.LoadX509KeyPair
ReloadFails_Ignored(res) == FALSE

ReloadFails_Always(res) == TRUE

ReloadFails(res) == res.err /= "nil"

\* reload's r.cert = &cert
SwappedCert_Kept(t) == cert

SwappedCert(t) == loaded[t]

\* reload's r.lastCertReload = time.Now()
ReloadTime_Zero(t) == 0

ReloadTime(t) == now

\* GetCertificateFunc's return r.cert, nil
ReturnedCert_Loaded(t) == loaded[t]

ReturnedCert(t) == cert

ReturnedErr_Propagated(t) == err[t]

ReturnedErr(t) == "nil"

\* ------------------------------------------------------- sync.RWMutex
\* RLock, called at position at: a reader enters unless a writer has
\* announced itself; then it sleeps at that position until the writer's
\* Unlock admits it.
RLock(t, at, next) ==
    IF t \in readers
    THEN /\ pc' = [pc EXCEPT ![t] = next]
         /\ UNCHANGED lockVars
    ELSE /\ t \notin rwaiting
         /\ IF writer = NoThread
            THEN /\ readers' = readers \cup {t}
                 /\ pc' = [pc EXCEPT ![t] = next]
                 /\ UNCHANGED <<writer, rwaiting>>
            ELSE /\ rwaiting' = rwaiting \cup {t}
                 /\ pc' = [pc EXCEPT ![t] = at]
                 /\ UNCHANGED <<writer, readers>>

RUnlock(t) ==
    /\ readers' = readers \ {t}
    /\ UNCHANGED <<writer, rwaiting>>

\* the deferred r.m.RUnlock() of shouldReload
ShouldReloadUnlock_Missing(t) == UNCHANGED lockVars

ShouldReloadUnlock(t) == RUnlock(t)

\* Lock, first half: take the writers' mutex and announce to the readers.
LockAnnounce_NoExclusion(t) ==
    /\ writer' = t
    /\ UNCHANGED <<readers, rwaiting>>

LockAnnounce(t) ==
    /\ writer = NoThread
    /\ writer' = t
    /\ UNCHANGED <<readers, rwaiting>>

\* Lock, second half: wait until the active readers have left.
LockDrained_NoWait(t) == writer = t

LockDrained(t) ==
    /\ writer = t
    /\ readers = {}

\* Unlock: admit the readers that slept behind this writer.
Unlock(t) ==
    /\ writer' = NoThread
    /\ readers' = rwaiting
    /\ rwaiting' = {}

\* ------------------------------------------------------------ history
Noted(t, what) ==
    [u \in Threads |->
        IF u = t \/ pc[u] = "idle" THEN quiet[u] ELSE quiet[u] \cup {what}]

WindowBreaks ==
    /\ since' = [u \in Threads |->
                    IF since[u] = "window" THEN "broken" ELSE since[u]]
    /\ win' = NoWin

\* --------------------------------------------------------- environment
Tick ==
    /\ r = "live"
    /\ now < MaxTime
    /\ now' = now + 1
    /\ IF now + 1 > lastCertReload + reloadInterval
       THEN WindowBreaks
       ELSE UNCHANGED winVars
    /\ UNCHANGED <<diskVars, r, newErr, verbose, fieldVars, lockVars, pc, localVars, calls,
                   pairBy, quiet, ghost>>

\* The renewal process overwrites the certificate file with the next
\* version, and then the key file with the key that matches it.
RenewCertFile ==
    /\ r = "live"
    /\ certFile = keyFile
    /\ keyFile < MaxVer
    /\ certFile' = keyFile + 1
    /\ WindowBreaks
    /\ UNCHANGED <<now, keyFile, r, newErr, verbose, fieldVars, lockVars, pc, localVars, calls,
                   pairBy, quiet, ghost>>

RenewKeyFile ==
    /\ r = "live"
    /\ certFile = keyFile + 1
    /\ keyFile' = certFile
    /\ WindowBreaks
    /\ UNCHANGED <<now, certFile, r, newErr, verbose, fieldVars, lockVars, pc, localVars, calls,
                   pairBy, quiet, ghost>>

\* The certificate file is briefly absent or unparsable (mid-write), and
\* comes back with the content that matches the key file.
BreakCertFile ==
    /\ r = "live"
    /\ certFile = keyFile
    /\ certFile' = Bad
    /\ WindowBreaks
    /\ UNCHANGED <<now, keyFile, r, newErr, verbose, fieldVars, lockVars, pc, localVars, calls,
                   pairBy, quiet, ghost>>

RepairCertFile ==
    /\ r = "live"
    /\ certFile = Bad
    /\ certFile' = keyFile
    /\ WindowBreaks
    /\ UNCHANGED <<now, keyFile, r, newErr, verbose, fieldVars, lockVars, pc, localVars, calls,
                   pairBy, quiet, ghost>>

\* -------------------------------------------------------- NewReloader
NewReloader ==
    /\ r = "unborn"
    /\ LET res == LoadX509KeyPair(certFile, keyFile) IN
       IF ConstructFails(res)
       THEN /\ r' = "nil"
            /\ newErr' = Errorf("could not load keypair", res.err)
            /\ UNCHANGED <<fieldVars, verbose>>
       ELSE /\ r' = "live"
            /\ newErr' = NilErr
            /\ cert' = NewCert(res)
            /\ lastCertReload' = now
            /\ reloadInterval' = defaultReloadInterval
            /\ verbose' = FALSE
    /\ UNCHANGED <<now, diskVars, lockVars, pc, localVars, calls, pairBy,
                   quiet, winVars, ghost>>

\* ------------------------------------------------- WithReloadInterval
\* The call, up to r.m.Lock() having announced the writer.
WithReloadInterval(t) ==
    /\ r = "live"
    /\ pc[t] = "idle"
    /\ calls < MaxCalls
    /\ calls' = calls + 1
    /\ LockAnnounce(t)
    /\ pc' = [pc EXCEPT ![t] = "wi_set"]
    /\ UNCHANGED <<now, diskVars, r, newErr, verbose, fieldVars, localVars, pairBy, quiet,
                   winVars, ghost>>

\* r.reloadInterval = duration, then the deferred Unlock.  The argument is
\* unobservable before this step, so it is drawn here.
WithReloadInterval_Set(t) ==
    /\ pc[t] = "wi_set"
    /\ LockDrained(t)
    /\ \E duration \in Durations :
          /\ reloadInterval' = duration
          /\ IF now > lastCertReload + duration
             THEN WindowBreaks
             ELSE UNCHANGED winVars
    /\ Unlock(t)
    /\ pc' = [pc EXCEPT ![t] = "idle"]
    /\ quiet' = Noted(t, "config")
    /\ UNCHANGED <<now, diskVars, r, newErr, verbose, cert, lastCertReload, localVars, calls,
                   pairBy, ghost>>

\* --------------------------------------------------------- SetVerbose
\* The call; it takes no lock.
SetVerbose(t) ==
    /\ r = "live"
    /\ pc[t] = "idle"
    /\ calls < MaxCalls
    /\ calls' = calls + 1
    /\ pc' = [pc EXCEPT ![t] = "sv_set"]
    /\ UNCHANGED <<now, diskVars, r, newErr, verbose, fieldVars, lockVars, localVars,
                   pairBy, quiet, winVars, ghost>>

\* r.verbose = verbose
SetVerbose_Set(t) ==
    /\ pc[t] = "sv_set"
    /\ \E flag \in BOOLEAN : verbose' = flag
    /\ pc' = [pc EXCEPT ![t] = "idle"]
    /\ UNCHANGED <<now, diskVars, r, newErr, fieldVars, lockVars, localVars, calls,
                   pairBy, quiet, winVars, ghost>>

\* logf reads r.verbose: the goroutine's next step calls r.logf, in
\* WithReloadInterval, in GetCertificateFunc before reload and after its
\* failure, or in reload under the write lock.
ReadsVerbose(t) == pc[t] \in {"wi_set", "rl_load", "rl_time"}

\* the goroutine's next step assigns r.verbose
WritesVerbose(t) == pc[t] = "sv_set"

\* ------------------------------------------------- GetCertificateFunc
\* The call, up to shouldReload's r.m.RLock().
GetCertificateFunc(t) ==
    /\ r = "live"
    /\ pc[t] = "idle"
    /\ calls < MaxCalls
    /\ calls' = calls + 1
    /\ RLock(t, "sr_rlock", "sr_eval")
    /\ quiet' = [quiet EXCEPT ![t] = {}]
    /\ since' = [since EXCEPT ![t] =
                    IF now > lastCertReload + reloadInterval
                    THEN "stale" ELSE "window"]
    /\ UNCHANGED <<now, diskVars, r, newErr, verbose, fieldVars, localVars, pairBy, win, ghost>>

\* shouldReload's r.m.RLock() returns once the writer has admitted the reader.
shouldReload_RLock(t) ==
    /\ pc[t] = "sr_rlock"
    /\ RLock(t, "sr_rlock", "sr_eval")
    /\ UNCHANGED <<now, diskVars, r, newErr, verbose, fieldVars, localVars, calls, pairBy,
                   quiet, winVars, ghost>>

\* The comparison under the read lock, the deferred RUnlock, and the branch
\* of GetCertificateFunc on the result.
shouldReload(t) ==
    /\ pc[t] = "sr_eval"
    /\ t \in readers
    /\ pc' = [pc EXCEPT ![t] = IF Stale THEN "rl_load" ELSE "gc_rlock"]
    /\ ghost' = [ghost EXCEPT ![t].observed =
                    (now > lastCertReload + reloadInterval)]
    /\ ShouldReloadUnlock(t)
    /\ UNCHANGED <<now, diskVars, r, newErr, verbose, fieldVars, localVars, calls, pairBy,
                   quiet, winVars>>

\* reload: tls.LoadX509KeyPair outside any lock; on error reload returns
\* and GetCertificateFunc logs the error and goes on.
reload_Load(t) ==
    /\ pc[t] = "rl_load"
    /\ LET res == LoadX509KeyPair(certFile, keyFile) IN
       /\ loaded' = [loaded EXCEPT ![t] = res.cert]
       /\ err' = [err EXCEPT ![t] = res.err]
       /\ pc' = [pc EXCEPT ![t] = IF ReloadFails(res) THEN "gc_rlock" ELSE "rl_lock"]
       /\ ghost' = [ghost EXCEPT ![t].reads = @ + 1,
                                 ![t].before = IF res.err /= "nil" THEN cert ELSE NilCert]
    /\ UNCHANGED <<now, diskVars, r, newErr, verbose, fieldVars, lockVars, ret, retErr, calls,
                   pairBy, quiet, winVars>>

\* reload's r.m.Lock(), up to having announced the writer
reload_Lock(t) ==
    /\ pc[t] = "rl_lock"
    /\ LockAnnounce(t)
    /\ pc' = [pc EXCEPT ![t] = "rl_cert"]
    /\ UNCHANGED <<now, diskVars, r, newErr, verbose, fieldVars, localVars, calls, pairBy,
                   quiet, winVars, ghost>>

\* r.cert = &cert
reload_SetCert(t) ==
    /\ pc[t] = "rl_cert"
    /\ LockDrained(t)
    /\ cert' = SwappedCert(t)
    /\ pc' = [pc EXCEPT ![t] = "rl_time"]
    /\ pairBy' = t
    /\ quiet' = Noted(t, "swap")
    /\ win' = IF win.first /= NilCert THEN [win EXCEPT !.swapped = TRUE] ELSE win
    /\ UNCHANGED <<now, diskVars, r, newErr, verbose, lastCertReload, reloadInterval, lockVars,
                   localVars, calls, since, ghost>>

\* r.lastCertReload = time.Now(), then the deferred Unlock
reload_SetTime(t) ==
    /\ pc[t] = "rl_time"
    /\ lastCertReload' = ReloadTime(t)
    /\ Unlock(t)
    /\ pc' = [pc EXCEPT ![t] = "gc_rlock"]
    /\ pairBy' = IF pairBy = t THEN NoThread ELSE Mixed
    /\ quiet' = [Noted(t, "swap") EXCEPT ![t] = {}]
    /\ IF now > now + reloadInterval
       THEN WindowBreaks
       ELSE UNCHANGED winVars
    /\ UNCHANGED <<now, diskVars, r, newErr, verbose, cert, reloadInterval, localVars, calls,
                   ghost>>

GetCertificateFunc_RLock(t) ==
    /\ pc[t] = "gc_rlock"
    /\ RLock(t, "gc_rlock", "gc_ret")
    /\ UNCHANGED <<now, diskVars, r, newErr, verbose, fieldVars, localVars, calls, pairBy,
                   quiet, winVars, ghost>>

\* return r.cert, nil: the results are evaluated under the read lock
GetCertificateFunc_Return(t) ==
    /\ pc[t] = "gc_ret"
    /\ t \in readers
    /\ ret' = [ret EXCEPT ![t] = ReturnedCert(t)]
    /\ retErr' = [retErr EXCEPT ![t] = ReturnedErr(t)]
    /\ pc' = [pc EXCEPT ![t] = "gc_runlock"]
    /\ win' = IF since[t] = "window" /\ win.first = NilCert
              THEN [win EXCEPT !.first = ReturnedCert(t)]
              ELSE win
    /\ UNCHANGED <<now, diskVars, r, newErr, verbose, fieldVars, lockVars, loaded, err, calls,
                   pairBy, quiet, since, ghost>>

\* the deferred RUnlock; the call is over and its locals are gone
GetCertificateFunc_RUnlock(t) ==
    /\ pc[t] = "gc_runlock"
    /\ RUnlock(t)
    /\ pc' = [pc EXCEPT ![t] = "idle"]
    /\ loaded' = [loaded EXCEPT ![t] = NilCert]
    /\ err' = [err EXCEPT ![t] = "nil"]
    /\ ret' = [ret EXCEPT ![t] = NilCert]
    /\ retErr' = [retErr EXCEPT ![t] = "none"]
    /\ quiet' = [quiet EXCEPT ![t] = {}]
    /\ since' = [since EXCEPT ![t] = "none"]
    /\ ghost' = [ghost EXCEPT ![t] = NoGhost]
    /\ UNCHANGED <<now, diskVars, r, newErr, verbose, fieldVars, calls, pairBy, win>>

\* ------------------------------------------------------ specification
Init ==
    /\ now = 0
    /\ certFile \in {Bad, 1, 2}
    /\ keyFile \in {Bad, 1}
    /\ <<certFile, keyFile>> \in {<<1, 1>>, <<Bad, 1>>, <<1, Bad>>, <<2, 1>>}
    /\ r = "unborn"
    /\ newErr = NilErr
    /\ cert = NilCert
    /\ lastCertReload = 0
    /\ reloadInterval = 0
    /\ verbose = FALSE
    /\ writer = NoThread
    /\ readers = {}
    /\ rwaiting = {}
    /\ pc = [t \in Threads |-> "idle"]
    /\ loaded = [t \in Threads |-> NilCert]
    /\ err = [t \in Threads |-> "nil"]
    /\ ret = [t \in Threads |-> NilCert]
    /\ retErr = [t \in Threads |-> "none"]
    /\ calls = 0
    /\ pairBy = NoThread
    /\ quiet = [t \in Threads |-> {}]
    /\ since = [t \in Threads |-> "none"]
    /\ win = NoWin
    /\ ghost = [t \in Threads |-> NoGhost]

Step(t) ==
    \/ WithReloadInterval(t)
    \/ WithReloadInterval_Set(t)
    \/ GetCertificateFunc(t)
    \/ shouldReload_RLock(t)
    \/ shouldReload(t)
    \/ reload_Load(t)
    \/ reload_Lock(t)
    \/ reload_SetCert(t)
    \/ reload_SetTime(t)
    \/ GetCertificateFunc_RLock(t)
    \/ GetCertificateFunc_Return(t)
    \/ GetCertificateFunc_RUnlock(t)

Next ==
    \/ NewReloader
    \/ Tick
    \/ RenewCertFile
    \/ RenewKeyFile
    \/ BreakCertFile
    \/ RepairCertFile
    \/ \E t \in Threads : Step(t)

Spec == Init /\ [][Next]_vars

\* ------------------------------------------------------------- claims
Live == r = "live"

\* the goroutine has evaluated GetCertificateFunc's results and is returning
Returning(t) == pc[t] = "gc_runlock"

\* the bundles a successful tls.LoadX509KeyPair can produce
ParsedBundles ==
    {LoadX509KeyPair(c, k).cert : c \in 1..MaxVer, k \in 1..MaxVer} \ {NilCert}

C2_CertAlwaysParsed ==
    Live => /\ cert /= NilCert
            /\ cert \in ParsedBundles

C2_Witness ==
    /\ Live
    /\ cert.Certificate = 2
    /\ \E t \in Threads : pc[t] = "gc_ret" /\ err[t] = "err"

\* a failed reload leaves r.cert and r.lastCertReload unchanged
C3_FailedReloadFrame ==
    \A t \in Threads :
        pc[t] = "rl_load" /\ err'[t] = "err" =>
            /\ cert' = cert
            /\ lastCertReload' = lastCertReload

C4_AtomicSwap ==
    Live =>
        /\ cert.Certificate = cert.PrivateKey
        /\ \A t \in Threads :
              Returning(t) => /\ ret[t] /= NilCert
                              /\ ret[t].Certificate = ret[t].PrivateKey
        /\ readers /= {} => pairBy = NoThread

C4_Witness ==
    \E t, u \in Threads :
        /\ t /= u
        /\ t \in readers
        /\ pc[t] = "gc_ret"
        /\ writer = u
        /\ pc[u] = "rl_cert"
        /\ cert.Certificate = 2

\* Scheduling: a goroutine inside a call keeps running.
Progress(t) == pc[t] /= "idle" /\ Step(t)

\* The same program with at most MaxFairCalls calls.
FairNext == Next /\ calls' <= MaxFairCalls

FairSpec == Init /\ [][FairNext]_vars /\ \A t \in Threads : WF_vars(Progress(t))

\* C5: no reachable state has every unfinished call blocked on the lock, and
\* under fair scheduling every started call returns.
C5_NoDeadlock ==
    /\ []((\E t \in Threads : pc[t] /= "idle") =>
             \E t \in Threads : ENABLED Progress(t))
    /\ \A t \in Threads : (pc[t] /= "idle") ~> (pc[t] = "idle")

C5_Witness ==
    \E t, u \in Threads :
        /\ t \in rwaiting
        /\ pc[t] = "gc_rlock"
        /\ writer = u
        /\ pc[u] = "rl_time"

\* C6: a call performs one file read when its staleness check found the
\* cache stale and none otherwise, each stale observer its own; a call that
\* began past lastCertReload + reloadInterval, with no other goroutine
\* writing the Reloader meanwhile, performs exactly one.
C6_OneReadPerStaleCall ==
    \A t \in Threads :
        /\ ghost[t].reads <= 1
        /\ Returning(t) =>
              /\ ghost[t].reads = (IF ghost[t].observed THEN 1 ELSE 0)
              /\ since[t] = "stale" /\ quiet[t] = {} => ghost[t].reads = 1

C6_Witness ==
    \E t, u \in Threads :
        /\ t /= u
        /\ Returning(t)
        /\ since[t] = "stale"
        /\ ghost[t].reads = 1
        /\ ghost[u].observed
        /\ ghost[u].reads = 1

\* C7 as stated: a call whose own re-read succeeded returns the bundle of
\* that re-read, also when other callers reload concurrently.
C7_Original ==
    \A t \in Threads :
        Returning(t) /\ ghost[t].reads = 1 /\ err[t] = "nil" =>
            ret[t] = loaded[t]

\* C7, amended: a call whose own re-read succeeded returns the bundle cached
\* when it returns, which is the bundle of its own re-read unless another
\* goroutine's reload swapped the cache after this call's swap.
C7_ReturnsOwnReloadUnlessOvertaken ==
    \A t \in Threads :
        Returning(t) /\ ghost[t].reads = 1 /\ err[t] = "nil" =>
            /\ ret[t] = cert
            /\ "swap" \notin quiet[t] => ret[t] = loaded[t]

C7_Witness ==
    \E t, u \in Threads :
        /\ t /= u
        /\ Returning(t)
        /\ ghost[t].reads = 1
        /\ err[t] = "nil"
        /\ ret[t] = loaded[t]
        /\ ret[t].Certificate = 2
        /\ pc[u] = "rl_lock"

\* C8 as stated: calls made within the interval and with unchanged files
\* perform no file read and all return the bundle the first of them returned.
C8_Original ==
    \A t \in Threads :
        Returning(t) /\ since[t] = "window" =>
            /\ ghost[t].reads = 0
            /\ ret[t] = win.first

\* C8, amended: calls made within the interval and with unchanged files
\* perform no file read, and all return the bundle the first of them
\* returned provided no reload is swapped in meanwhile (a call that observed
\* staleness earlier may still be completing its reload).
C8_IdempotentWithinInterval ==
    \A t \in Threads :
        Returning(t) /\ since[t] = "window" =>
            /\ ghost[t].reads = 0
            /\ ~win.swapped => ret[t] = win.first

C8_Witness ==
    \E t, u \in Threads :
        /\ t /= u
        /\ Returning(t)
        /\ Returning(u)
        /\ since[t] = "window"
        /\ since[u] = "window"
        /\ ~win.swapped
        /\ ret[t] = ret[u]
        /\ ret[t].Certificate = 2

\* C9 as stated: with a fixed reloadInterval, any two successful refreshes
\* are separated by more than reloadInterval, also under concurrent
\* triggering.
C9_Original ==
    \A t \in Threads :
        pc[t] = "rl_time" /\ "config" \notin quiet[t] =>
            now > lastCertReload + reloadInterval

\* C9, amended: a refresh by a call during which no other goroutine wrote
\* the Reloader comes more than reloadInterval after the previous refresh;
\* callers that observe staleness concurrently each refresh.
C9_RefreshesApartWhenUndisturbed ==
    \A t \in Threads :
        pc[t] = "rl_time" /\ quiet[t] = {} =>
            now > lastCertReload + reloadInterval

C9_Witness ==
    \E t \in Threads :
        /\ pc[t] = "rl_time"
        /\ quiet[t] = {}
        /\ lastCertReload > 0
        /\ reloadInterval >= 0

\* C10 as stated: with reloadInterval zero or negative every call triggers a
\* reload attempt, and returns a valid bundle and no error.
C10_Original ==
    \A t \in Threads :
        Returning(t) /\ reloadInterval <= 0 /\ "config" \notin quiet[t] =>
            /\ ghost[t].reads = 1
            /\ ret[t] \in ParsedBundles
            /\ retErr[t] = "nil"

\* C10, amended: with a negative reloadInterval every call triggers a reload
\* attempt; with reloadInterval zero a call does so when it is made at a
\* clock instant later than lastCertReload (and no other goroutine refreshes
\* meanwhile), and does not at the instant of the last reload; each call
\* returns a valid bundle and no error.
C10_NonPositiveInterval ==
    \A t \in Threads :
        Returning(t) /\ reloadInterval <= 0 /\ "config" \notin quiet[t] =>
            /\ reloadInterval < 0 => ghost[t].reads = 1
            /\ reloadInterval = 0 /\ since[t] = "stale" /\ quiet[t] = {} =>
                  ghost[t].reads = 1
            /\ reloadInterval = 0 /\ since[t] = "window" => ghost[t].reads = 0
            /\ ret[t] \in ParsedBundles
            /\ retErr[t] = "nil"

C10_Witness ==
    \E t \in Threads :
        /\ Returning(t)
        /\ reloadInterval < 0
        /\ quiet[t] = {}
        /\ lastCertReload = now
        /\ ghost[t].reads = 1
        /\ ret[t] = loaded[t]

\* ------------------------------------------------------- the long run
\* A server that keeps running: the clock never stops and handshakes keep
\* arriving.  Once now has reached MaxTime a tick moves the origin of time
\* instead of now, so that r.lastCertReload recedes; it stops receding at 0,
\* from where the cache is stale for every interval of Durations.
TickOn ==
    /\ r = "live"
    /\ IF now < MaxTime
       THEN /\ now' = now + 1
            /\ UNCHANGED lastCertReload
       ELSE /\ now' = now
            /\ lastCertReload' = IF lastCertReload > 0 THEN lastCertReload - 1 ELSE 0
    /\ IF now' > lastCertReload' + reloadInterval
       THEN WindowBreaks
       ELSE UNCHANGED winVars
    /\ UNCHANGED <<diskVars, r, newErr, verbose, cert, reloadInterval, lockVars, pc, localVars,
                   calls, pairBy, quiet, ghost>>

\* Handshakes keep arriving: the count of calls starts again.
MoreCalls ==
    /\ calls > 0
    /\ calls' = 0
    /\ UNCHANGED <<now, diskVars, r, newErr, verbose, fieldVars, lockVars, pc, localVars,
                   pairBy, quiet, winVars, ghost>>

\* a GetCertificateFunc call, from its first step to its last
Handshake(t) ==
    \/ GetCertificateFunc(t)
    \/ shouldReload_RLock(t)
    \/ shouldReload(t)
    \/ reload_Load(t)
    \/ reload_Lock(t)
    \/ reload_SetCert(t)
    \/ reload_SetTime(t)
    \/ GetCertificateFunc_RLock(t)
    \/ GetCertificateFunc_Return(t)
    \/ GetCertificateFunc_RUnlock(t)

\* The count of calls plays no part in the long run: it is kept at 0 or 1.
LongRunNext ==
    /\ \/ NewReloader
       \/ TickOn
       \/ MoreCalls
       \/ RenewCertFile
       \/ RenewKeyFile
       \/ \E t \in Threads : Handshake(t)
    /\ calls' <= 1

\* Every goroutine keeps running and keeps being handed handshakes, and the
\* clock keeps advancing.
LongRunSpec ==
    /\ Init
    /\ [][LongRunNext]_vars
    /\ WF_vars(NewReloader)
    /\ WF_vars(TickOn)
    /\ WF_vars(MoreCalls)
    /\ \A t \in Threads : WF_vars(Handshake(t))

\* the bundle parsed from the files of version v
Bundle(v) == LoadX509KeyPair(v, v).cert

\* the renewal process has written version v to both files
Renewed(v) == certFile = v /\ keyFile = v

\* C11: if the files are replaced by a valid new pair and then stay
\* unchanged, then eventually the cache holds the bundle parsed from them
\* for good, and from then on every call returns it.
C11_EventualPickup ==
    \A v \in 1..MaxVer :
        <>[]Renewed(v) =>
            <>[](/\ cert = Bundle(v)
                 /\ \A t \in Threads : Returning(t) => ret[t] = Bundle(v))

C11_Witness ==
    \E t, u \in Threads :
        /\ t /= u
        /\ Renewed(2)
        /\ cert = Bundle(2)
        /\ lastCertReload > 0
        /\ Returning(t)
        /\ ghost[t].reads = 0
        /\ ret[t] = Bundle(2)
        /\ Returning(u)
        /\ ghost[u].reads = 1
        /\ ret[u] = Bundle(2)

\* ---------------------------------------------------- configuration
\* The program with both setters, with at most MaxFairCalls calls.
ConfigNext ==
    /\ \/ Next
       \/ \E t \in Threads : SetVerbose(t)
       \/ \E t \in Threads : SetVerbose_Set(t)
    /\ calls' <= MaxFairCalls

ConfigSpec == Init /\ [][ConfigNext]_vars

\* the step in which WithReloadInterval assigns, unlocks and returns
Configures(t) == pc[t] = "wi_set" /\ pc'[t] = "idle"

C12_Step ==
    /\ \A t \in Threads :
          Configures(t) =>
              /\ r' = r
              /\ cert' = cert
              /\ lastCertReload' = lastCertReload
              /\ verbose' = verbose
              /\ <<certFile, keyFile>>' = <<certFile, keyFile>>
    /\ Live /\ reloadInterval' /= reloadInterval =>
          \E t \in Threads : Configures(t)
    /\ \A t \in Threads :
          pc[t] = "sr_eval" /\ pc'[t] /= "sr_eval" =>
              (pc'[t] = "rl_load") = (now > lastCertReload + reloadInterval)

\* C12: WithReloadInterval leaves the Reloader in place and changes only
\* r.reloadInterval; nothing else changes r.reloadInterval, so that every
\* staleness check after the call has returned compares against the
\* duration it set.
C12_FluentInterval == [][C12_Step]_vars

C12_Witness ==
    \E t \in Threads :
        /\ pc[t] = "rl_load"
        /\ quiet[t] = {}
        /\ reloadInterval = 0
        /\ now = lastCertReload + 1

\* --------------------------------------------------------- construction
\* the step in which NewReloader returns
Constructs == r = "unborn" /\ r' /= "unborn"

C13_Step ==
    Constructs /\ LoadX509KeyPair(certFile, keyFile).err /= "nil" =>
        /\ r' = "nil"
        /\ newErr' /= NilErr

\* C13: when a file is missing or unparsable (or the pair does not match)
\* at construction, NewReloader returns nil and an error that wraps the
\* error of tls.LoadX509KeyPair; the Reloader that was not returned has no
\* field set and no call is ever made on it.
C13_ConstructionFailure ==
    /\ [](r = "nil" =>
             /\ newErr = <<"could not load keypair",
                           LoadX509KeyPair(certFile, keyFile).err>>
             /\ newErr[2] = "err"
             /\ cert = NilCert
             /\ calls = 0
             /\ \A t \in Threads : pc[t] = "idle")
    /\ [][C13_Step]_vars

C13_Witness ==
    /\ r = "nil"
    /\ keyFile = Bad
    /\ certFile /= Bad
    /\ newErr /= NilErr

C14_Step ==
    Constructs /\ certFile /= Bad /\ keyFile /= Bad /\ certFile = keyFile =>
        /\ r' = "live"
        /\ newErr' = NilErr
        /\ cert' = [Certificate |-> certFile, PrivateKey |-> keyFile]
        /\ lastCertReload' = now
        /\ reloadInterval' = 1
        /\ verbose' = FALSE

\* every call made so far is still running and none has read the files
NoReloadYet ==
    /\ calls = Cardinality({u \in Threads : pc[u] /= "idle"})
    /\ \A u \in Threads : ghost[u].reads = 0

\* C14: for a valid pair NewReloader returns a Reloader and a nil error;
\* r.cert is the parse of the two files, r.lastCertReload the time of
\* construction, r.reloadInterval 24 hours (one tick) and r.verbose false;
\* a call made before any reload returns the bundle of the construction.
C14_ConstructionSuccess ==
    /\ [](\A t \in Threads :
             Returning(t) /\ NoReloadYet =>
                 /\ ret[t] = [Certificate |-> 1, PrivateKey |-> 1]
                 /\ retErr[t] = "nil"
                 /\ lastCertReload = 0)
    /\ [][C14_Step]_vars

C14_Witness ==
    \E t \in Threads :
        /\ Returning(t)
        /\ NoReloadYet
        /\ calls = 2
        /\ certFile = 2
        /\ ret[t] = [Certificate |-> 1, PrivateKey |-> 1]

\* ------------------------------------------------------------- locking
\* the goroutine is in reload's tls.LoadX509KeyPair
Loading(t) == pc[t] = "rl_load"

\* the goroutine is in a call that has not observed staleness
Serving(t) ==
    /\ pc[t] \in {"sr_rlock", "sr_eval", "gc_rlock", "gc_ret", "gc_runlock"}
    /\ ghost[t].reads = 0

\* C15: a goroutine in reload's file read holds neither the read nor the
\* write lock, and while it is there (for as long as the read takes) every
\* step of another goroutine's call that has not observed staleness can be
\* taken: it acquires the read lock and returns the cached certificate.
C15_LoadOutsideLock ==
    \A t \in Threads :
        Loading(t) =>
            /\ t \notin readers
            /\ t \notin rwaiting
            /\ writer /= t
            /\ \A u \in Threads \ {t} :
                  Serving(u) =>
                      /\ ENABLED Handshake(u)
                      /\ u \notin rwaiting
                      /\ Returning(u) => ret[u] = cert

C15_Witness ==
    \E t, u \in Threads :
        /\ t /= u
        /\ Loading(t)
        /\ Returning(u)
        /\ ~ghost[u].observed
        /\ ghost[u].reads = 0

\* the goroutine is between r.m.Lock() and the deferred r.m.Unlock()
Writing(t) == pc[t] \in {"wi_set", "rl_cert", "rl_time"}

\* the goroutine's step assigns a field of the Reloader
Writes(t) == Writing(t) /\ pc'[t] /= pc[t]

\* the goroutine's step reads r.lastCertReload and r.reloadInterval, or r.cert
Reads(t) == pc[t] \in {"sr_eval", "gc_ret"} /\ pc'[t] /= pc[t]

C16_Step ==
    /\ Live /\ <<cert, lastCertReload, reloadInterval>>' /=
                   <<cert, lastCertReload, reloadInterval>> =>
          \E t \in Threads : Writes(t)
    /\ \A t \in Threads :
          Writes(t) => writer = t /\ readers = {}
    /\ \A t \in Threads :
          Reads(t) => t \in readers /\ ~(\E u \in Threads : Writes(u))

\* C16: r.cert, r.lastCertReload and r.reloadInterval are assigned only by
\* the goroutine that holds the write lock and read only by goroutines that
\* hold the read lock; at most one goroutine is between Lock and Unlock, and
\* once it is inside its critical section no goroutine holds the read lock.
C16_LockDiscipline ==
    /\ [](\A t \in Threads :
             /\ Writing(t) => /\ writer = t
                              /\ \A u \in Threads \ {t} : ~Writing(u)
             /\ pc[t] = "rl_time" => readers = {}
             /\ t \in readers => t \notin rwaiting)
    /\ [][C16_Step]_vars

C16_Witness ==
    /\ readers = Threads
    /\ \E t, u \in Threads :
          /\ t /= u
          /\ pc[t] = "gc_ret"
          /\ pc[u] = "sr_eval"
          /\ ghost[t].reads = 1

\* ------------------------------------------------------------- retries
\* the clock has passed r.lastCertReload + r.reloadInterval
PastThreshold == now > lastCertReload + reloadInterval

C17_Step ==
    \A t \in Threads :
        /\ Loading(t) /\ err'[t] = "err" =>
              /\ lastCertReload' = lastCertReload
              /\ PastThreshold' = PastThreshold
        /\ pc[t] = "sr_eval" /\ pc'[t] /= pc[t] /\ PastThreshold =>
              pc'[t] = "rl_load"

\* C17: a failed reload leaves r.lastCertReload where it was, so the cache
\* is still past its threshold when the failed call returns (no other
\* goroutine having written meanwhile), and every staleness check made past
\* the threshold leads to a reload attempt, whatever failed before.
C17_NoBackoff ==
    /\ [](\A t \in Threads :
             Returning(t) /\ err[t] = "err" /\ quiet[t] = {} => PastThreshold)
    /\ [][C17_Step]_vars

C17_Witness ==
    \E t, u \in Threads :
        /\ t /= u
        /\ Returning(t)
        /\ err[t] = "err"
        /\ quiet[t] = {}
        /\ Loading(u)
        /\ quiet[u] = {}
        /\ certFile = Bad

\* ------------------------------------------------------------- versions
\* the goroutine holds the write lock and is about to assign r.cert
Swapping(t) == pc[t] = "rl_cert" /\ LockDrained(t)

\* C18 as stated: the files only move forward through their versions, and
\* no reload installs a bundle older than the one it replaces.
C18_Original ==
    \A t \in Threads :
        Swapping(t) => SwappedCert(t).Certificate >= cert.Certificate

\* ------------------------------------------------------------ r.verbose
\* C19 as stated: SetVerbose never assigns r.verbose while another
\* goroutine is about to read it in logf; SetVerbose takes no lock, so
\* nothing orders the two accesses.
C19_Original ==
    \A t, u \in Threads :
        t /= u => ~(WritesVerbose(t) /\ ReadsVerbose(u))

\* ------------------------------------------------------ r.lastCertReload
\* the step in which reload assigns r.lastCertReload and unlocks
Stamps(t) == pc[t] = "rl_time" /\ pc'[t] = "gc_rlock"

C20_Step ==
    /\ lastCertReload' >= lastCertReload
    /\ Live /\ lastCertReload' /= lastCertReload =>
          \E t \in Threads : Stamps(t)
    /\ \A t \in Threads :
          Stamps(t) =>
              /\ lastCertReload' = now
              /\ err[t] = "nil"
              /\ writer = t
              /\ readers = {}

\* C20: r.lastCertReload never decreases, and after construction it is
\* assigned only by a reload whose load succeeded, to the current time, in
\* the critical section in which that reload has assigned r.cert.
C20_LastReloadMonotonic ==
    /\ [](\A t \in Threads :
             pc[t] = "rl_time" => /\ writer = t
                                  /\ pairBy = t
                                  /\ cert = loaded[t]
                                  /\ lastCertReload <= now)
    /\ [][C20_Step]_vars

C20_Witness ==
    \E t, u \in Threads :
        /\ t /= u
        /\ pc[t] = "gc_rlock"
        /\ ghost[t].reads = 1
        /\ err[t] = "nil"
        /\ lastCertReload = 2
        /\ reloadInterval = 1
        /\ pc[u] = "rl_lock"

====
